---- MODULE Spec2Model ----
(***************************************************************************)
(* Model of the File Collector tree provider (src/src/extension.ts):       *)
(* the path -> FileItem map, the allChecked flag, lazy expansion,          *)
(* checkbox toggling with its un-awaited directory propagation, toggle-all *)
(* and the generation of the combined document.                            *)
(*                                                                         *)
(* Paths are sequences of names; path.join appends a name, path.relative   *)
(* strips the workspace prefix.  The JavaScript Map is a sequence of items *)
(* in insertion order; Map.set on a present key keeps the key's position.  *)
(* Every await on the file system or on the input box is a point where the *)
(* handler is suspended and any other handler may run.                     *)
(*                                                                         *)
(* getChildren awaits readdir before it reads or writes the map, so its    *)
(* effect is one step, taken when the listing arrives.  toggleCheck acts   *)
(* on the item the map holds for a path, which is the item the tree shows. *)
(* The listing of the disk is fixed for a run; a written document is an    *)
(* output of the run and is not listed again.                              *)
(***************************************************************************)
EXTENDS Integers, Sequences, FiniteSets, TLC

\* ------------------------------------------------------------------------
\* The disk the extension runs against
\* ------------------------------------------------------------------------

workspaceRoot == <<"ws">>

Entry(n, d) == [name |-> n, isDirectory |-> d]

\* fs.promises.readdir(dirPath, {withFileTypes: true}) for every directory
\* of the workspace, in the listing order of the file system.
Disk ==
  (<<"ws">> :> << Entry("sub", TRUE), Entry("node_modules", TRUE),
                  Entry(".git", TRUE) >>)
  @@ (<<"ws", "sub">> :> << Entry(".git", FALSE), Entry("deep", TRUE) >>)
  @@ (<<"ws", "sub", "deep">> :> << Entry("c.txt", FALSE) >>)
  @@ (<<"ws", "node_modules">> :> << Entry("ignored.txt", FALSE) >>)
  @@ (<<"ws", ".git">> :> << Entry("HEAD", FALSE) >>)

readdir(dirPath) == Disk[dirPath]

\* fs.promises.readFile(file, 'utf8') when the read succeeds
Content ==
  (<<"ws", "sub", ".git">> :> "gitdir: ../.git/modules/sub")
  @@ (<<"ws", "sub", "deep", "c.txt">> :> "Y")
  @@ (<<"ws", "node_modules", "ignored.txt">> :> "N")
  @@ (<<"ws", ".git", "HEAD">> :> "ref: refs/heads/main")

readFile(file) == Content[file]

\* path.join(dirPath, entry.name)
join(dirPath, name) == Append(dirPath, name)

\* path.relative(from, to) for a path `to` below `from`
relative(from, to) == SubSeq(to, Len(from) + 1, Len(to))

\* ------------------------------------------------------------------------
\* Bounds
\* ------------------------------------------------------------------------

\* handlers (toggleDirectoryChildren chains, generateFile calls) that may be
\* suspended at an await at once
MaxPending == 2

\* generateFile calls that may be pending at once
MaxGen == 1

\* ------------------------------------------------------------------------
\* State
\* ------------------------------------------------------------------------

VARIABLES
  items,       \* this.items: the Map, as a sequence in insertion order
  allChecked,  \* this.allChecked
  props,       \* pending toggleDirectoryChildren call chains
  gens,        \* pending generateFile calls
  discovered,  \* history: the paths in the order getChildren first met them
  shown,       \* history: per directory, what getChildren returned for it
               \* since the last change of a check state
  last         \* history: the last handler step, what it returned or put
               \* out, and what it started from

vars == <<items, allChecked, props, gens, discovered, shown, last>>

\* The record a handler step leaves in `last`.  op names the step; two
\* records with the same op hold values of the same shape in arg, ret and
\* pre, and op is the field compared first.
Step(op, arg, ret, pre) == [op |-> op, arg |-> arg, ret |-> ret, pre |-> pre]

\* ------------------------------------------------------------------------
\* FileItem and the Map
\* ------------------------------------------------------------------------

\* new FileItem(label, collapsibleState, filePath, isChecked); `dir` is
\* collapsibleState !== None
FileItem(filePath, dir, isChecked) ==
  [filePath |-> filePath, dir |-> dir, isChecked |-> isChecked]

\* FileItem.updateCheckState
updateCheckState(item, checked) == [item EXCEPT !.isChecked = checked]

Keys(m) == { m[i].filePath : i \in 1..Len(m) }

IndexOf(m, p) == CHOOSE i \in 1..Len(m) : m[i].filePath = p

\* Map.get; callers test Keys first (the `?.` and `if (item)` of the source)
MapGet(m, p) == m[IndexOf(m, p)]

\* variant: a present key is deleted and inserted again, going last
MapSet_Reinsert(m, item) ==
  Append(SelectSeq(m, LAMBDA x : x.filePath # item.filePath), item)

\* Map.set: a present key keeps its position, a new key goes last
MapSet(m, item) ==
  IF item.filePath \in Keys(m)
  THEN [m EXCEPT ![IndexOf(m, item.filePath)] = item]
  ELSE Append(m, item)

\* the name test of the two directory walks
IgnoredName(name) == name = "node_modules" \/ name = ".git"

\* ------------------------------------------------------------------------
\* getChildren / getFilesInDirectory
\* ------------------------------------------------------------------------

\* variant: nothing is left out of the listing
SkipListed_None(entry) == FALSE

\* variant: the listing skips by name alone, as the propagation does
SkipListed_ByName(entry) == IgnoredName(entry.name)

\* line 94: the entries the listing leaves out
SkipListed(entry) == entry.isDirectory /\ IgnoredName(entry.name)

\* variant: every listed item is built unchecked
PriorCheck_Fresh(m, filePath) == FALSE

\* this.items.get(filePath)?.isChecked ?? false
PriorCheck(m, filePath) ==
  IF filePath \in Keys(m) THEN MapGet(m, filePath).isChecked ELSE FALSE

\* the for loop of getFilesInDirectory from entry i on; ret is the local
\* array `items` of the source
RECURSIVE ListLoop(_, _, _, _)
ListLoop(m, dirPath, i, ret) ==
  IF i > Len(readdir(dirPath)) THEN [items |-> m, ret |-> ret]
  ELSE LET entry == readdir(dirPath)[i]
           filePath == join(dirPath, entry.name)
           item == FileItem(filePath, entry.isDirectory, PriorCheck(m, filePath))
       IN IF SkipListed(entry)
          THEN ListLoop(m, dirPath, i + 1, ret)
          ELSE ListLoop(MapSet(m, item), dirPath, i + 1, Append(ret, item))

getFilesInDirectory(m, dirPath) == ListLoop(m, dirPath, 1, <<>>)

NoShown == [d \in DOMAIN Disk |-> <<>>]

\* The tree asks for the children of the root (no element) or of a
\* directory item it displays.  The await on readdir comes before the
\* handler touches the map, so the whole effect happens when it resumes.
getChildren(dirPath) ==
  /\ \/ dirPath = workspaceRoot
     \/ dirPath \in Keys(items) /\ MapGet(items, dirPath).dir
  /\ LET r == getFilesInDirectory(items, dirPath) IN
       /\ items' = r.items
       /\ shown' = [shown EXCEPT ![dirPath] = <<r.ret>>]
       /\ discovered' = discovered \o
            SelectSeq([i \in 1..Len(r.ret) |-> r.ret[i].filePath],
                      LAMBDA q : \A j \in 1..Len(discovered) : discovered[j] # q)
       /\ last' = Step("getChildren", dirPath, r.ret, shown[dirPath])
  /\ UNCHANGED <<allChecked, props, gens>>

\* ------------------------------------------------------------------------
\* toggleCheck and toggleDirectoryChildren
\* ------------------------------------------------------------------------

\* line 139: the entries the propagation leaves out
SkipToggled(entry) == IgnoredName(entry.name)

\* variant: every item of the map takes the value at each entry
ToggleEntry_All(m, filePath, checked) ==
  [i \in 1..Len(m) |-> updateCheckState(m[i], checked)]

\* lines 144-148: the entry's item, when the map has one, takes the value
ToggleEntry(m, filePath, checked) ==
  IF filePath \in Keys(m)
  THEN [m EXCEPT ![IndexOf(m, filePath)] = updateCheckState(@, checked)]
  ELSE m

\* variant: the propagation stays in the toggled directory
Descends_Never(entry) == FALSE

\* line 150: the entries the propagation calls itself on
Descends(entry) == entry.isDirectory

\* A call chain of toggleDirectoryChildren is a stack of frames; frame.i is
\* the entry the frame's loop is at (0: awaiting its own readdir).  Walk
\* runs the chain from the resumption of its top frame to its next await
\* (the readdir of a subdirectory) or to the return of the outermost call.
RECURSIVE Walk(_, _, _)
Walk(m, stack, checked) ==
  IF stack = <<>> THEN [items |-> m, stack |-> stack]
  ELSE LET top == stack[Len(stack)]
           entries == readdir(top.dir)
           i == top.i + 1
           st == [stack EXCEPT ![Len(stack)].i = i]
       IN IF i > Len(entries)
          THEN Walk(m, SubSeq(stack, 1, Len(stack) - 1), checked)
          ELSE LET entry == entries[i]
                   filePath == join(top.dir, entry.name)
                   m2 == ToggleEntry(m, filePath, checked)
               IN IF SkipToggled(entry) THEN Walk(m, st, checked)
                  ELSE IF Descends(entry)
                       THEN [items |-> m2,
                             stack |-> Append(st, [dir |-> filePath, i |-> 0])]
                       ELSE Walk(m2, st, checked)

\* toggleDirectoryChildren(dirPath, checked) up to its first await.  Line
\* 131 drops the promise: toggleCheck neither awaits it nor attaches a
\* catch, so nobody receives its outcome.  visited is history: the
\* directories whose readdir has returned to the chain.
StartProp(dirPath, checked) ==
  [dirPath |-> dirPath, checked |-> checked, receiver |-> "nobody",
   stack |-> <<[dir |-> dirPath, i |-> 0]>>,
   visited |-> <<>>]

Remove(s, k) == SubSeq(s, 1, k - 1) \o SubSeq(s, k + 1, Len(s))

\* variant: the click always checks
NewState_Sticky(item) == TRUE

\* line 124
NewState(item) == ~item.isChecked

\* The checkbox handler: toggleCheck on an item of the map.  The call of
\* toggleDirectoryChildren is not awaited: toggleCheck returns with the
\* propagation pending on its first readdir.
toggleCheck(p) ==
  /\ p \in Keys(items)
  /\ LET item == MapGet(items, p)
         newState == NewState(item)
     IN /\ items' = [items EXCEPT ![IndexOf(items, p)] = updateCheckState(@, newState)]
        /\ IF item.dir
           THEN /\ Len(props) + Len(gens) < MaxPending
                /\ props' = Append(props, StartProp(p, newState))
           ELSE props' = props
        /\ last' = Step("toggleCheck", p, newState,
                        <<items, allChecked,
                          IF last.op = "toggleCheck" /\ last.arg = p
                          THEN <<last.pre[1], last.pre[2]>> ELSE <<>> >>)
  /\ shown' = NoShown
  /\ UNCHANGED <<allChecked, gens, discovered>>

\* History: what the pending propagations have been running since with no
\* other handler step in between: a toggleCheck on the directory all of
\* them walk, or a toggleAllFiles; <<>> otherwise and after a failed read.
Run ==
  IF last.op = "propagate"
  THEN IF last.ret[1] = "failed" THEN <<>> ELSE last.pre[1]
  ELSE IF last.op = "toggleCheck" /\ props # <<>>
          /\ \A j \in 1..Len(props) : props[j].dirPath = last.arg
       THEN <<"toggleCheck", last.arg, Len(props)>>
       ELSE IF last.op = "toggleAllFiles"
            THEN <<"toggleAllFiles", <<>>, Len(props)>>
            ELSE <<>>

\* The readdir a pending propagation awaits returns its entries
propagate(k) ==
  /\ k \in 1..Len(props)
  /\ LET t == props[k]
         r == Walk(items, t.stack, t.checked)
     IN /\ items' = r.items
        /\ props' = IF r.stack = <<>> THEN Remove(props, k)
                    ELSE [props EXCEPT ![k].stack = r.stack,
                                       ![k].visited = Append(@, t.stack[Len(t.stack)].dir)]
        /\ last' = Step("propagate", t.dirPath,
                        <<IF r.stack = <<>> THEN "finished" ELSE "pending", t.checked>>,
                        <<Run, Append(t.visited, t.stack[Len(t.stack)].dir), k>>)
  /\ shown' = NoShown
  /\ UNCHANGED <<allChecked, gens, discovered>>

\* The readdir a pending propagation awaits fails: the rejection travels up
\* the awaits of the chain and nothing catches it
propagateFail(k) ==
  /\ k \in 1..Len(props)
  /\ props' = Remove(props, k)
  /\ last' = Step("propagate", props[k].dirPath, <<"failed", props[k].checked>>,
                  <<Run, props[k].visited, k, props[k].receiver,
                    props[k].stack[Len(props[k].stack)].dir>>)
  /\ shown' = NoShown
  /\ UNCHANGED <<items, allChecked, gens, discovered>>

\* ------------------------------------------------------------------------
\* toggleAllFiles
\* ------------------------------------------------------------------------

\* variant: every item is flipped instead of set
SetAll_Flip(m, checked) == [i \in 1..Len(m) |-> updateCheckState(m[i], ~m[i].isChecked)]

\* lines 44-46
SetAll(m, checked) == [i \in 1..Len(m) |-> updateCheckState(m[i], checked)]

toggleAllFiles ==
  /\ allChecked' = ~allChecked
  /\ items' = SetAll(items, ~allChecked)
  /\ last' = Step("toggleAllFiles", <<>>, ~allChecked, <<>>)
  /\ shown' = NoShown
  /\ UNCHANGED <<props, gens, discovered>>

\* ------------------------------------------------------------------------
\* getCheckedFiles and generateFile
\* ------------------------------------------------------------------------

\* variant: checked directories are collected too
IsCheckedFile_AnyKind(item) == item.isChecked

\* line 160: the items the collection keeps
IsCheckedFile(item) == item.isChecked /\ ~item.dir

\* the for loop of getCheckedFiles over the Map in iteration order
RECURSIVE CheckedLoop(_, _, _)
CheckedLoop(m, i, checkedFiles) ==
  IF i > Len(m) THEN checkedFiles
  ELSE CheckedLoop(m, i + 1,
                   IF IsCheckedFile(m[i]) THEN Append(checkedFiles, m[i].filePath)
                   ELSE checkedFiles)

getCheckedFiles(m) == CheckedLoop(m, 1, <<>>)

\* variant: the blank-line separator is left out
Block_NoSeparator(file, content) ==
  << <<"// File: ", relative(workspaceRoot, file), "\n">>, content >>

\* lines 201-203: what one file adds to `output`; the string is kept as the
\* sequence of its pieces
Block(file, content) ==
  << <<"// File: ", relative(workspaceRoot, file), "\n">>, content, "\n\n" >>

\* The command handler up to its first await: the empty selection ends in
\* the warning, otherwise the call is suspended in showInputBox holding its
\* checkedFiles array
generateFile ==
  LET checkedFiles == getCheckedFiles(items) IN
    /\ IF Len(checkedFiles) = 0
       THEN /\ gens' = gens
            /\ last' = Step("generateFile", <<>>, "No files selected!", <<>>)
       ELSE /\ Len(gens) < MaxGen
            /\ Len(props) + Len(gens) < MaxPending
            /\ gens' = Append(gens, [pc |-> "input", checkedFiles |-> checkedFiles,
                                     fileName |-> "", i |-> 0, output |-> <<>>])
            /\ last' = Step("generateFile", <<>>, "showInputBox", <<>>)
    /\ UNCHANGED <<items, allChecked, props, discovered, shown>>

\* showInputBox resolves: undefined when dismissed (validateInput admits no
\* empty name), else the name; with a name the first readFile is issued
generateInput(k, fileName) ==
  /\ k \in 1..Len(gens)
  /\ gens[k].pc = "input"
  /\ IF fileName = ""
     THEN /\ gens' = Remove(gens, k)
          /\ last' = Step("showInputBox", <<>>, "dismissed", <<>>)
     ELSE /\ gens' = [gens EXCEPT ![k].pc = "read", ![k].fileName = fileName,
                                       ![k].i = 1]
          /\ last' = Step("showInputBox", <<>>, fileName, <<>>)
  /\ UNCHANGED <<items, allChecked, props, discovered, shown>>

\* variant: the selection is fetched again at each read
LoopFile_Live(g, m) ==
  IF g.i <= Len(getCheckedFiles(m)) THEN getCheckedFiles(m)[g.i]
  ELSE g.checkedFiles[g.i]

\* line 199: the loop runs over the local array taken at line 169
LoopFile(g, m) == g.checkedFiles[g.i]

\* readFile of checkedFiles[i] resolves: the block is appended and the next
\* readFile, or after the last file the writeFile, is issued
generateRead(k) ==
  /\ k \in 1..Len(gens)
  /\ gens[k].pc = "read"
  /\ LET g == gens[k]
         file == LoopFile(g, items)
         output == g.output \o Block(file, readFile(file))
     IN gens' = [gens EXCEPT ![k].output = output,
                             ![k].i = IF g.i = Len(g.checkedFiles) THEN g.i ELSE g.i + 1,
                             ![k].pc = IF g.i = Len(g.checkedFiles) THEN "write" ELSE "read"]
  /\ last' = Step("readFile", gens[k].checkedFiles[gens[k].i], "read", <<gens[k].i>>)
  /\ UNCHANGED <<items, allChecked, props, discovered, shown>>

\* variant: the failed file is skipped and the loop goes on
AfterReadError_Skip(gs, k) ==
  [gs EXCEPT ![k].i = IF gs[k].i = Len(gs[k].checkedFiles) THEN @ ELSE @ + 1,
             ![k].pc = IF gs[k].i = Len(gs[k].checkedFiles) THEN "write" ELSE "read"]

\* lines 197 and 218: the try encloses the whole loop, so the handler ends
AfterReadError(gs, k) == Remove(gs, k)

\* readFile rejects: the catch of line 218 shows the error and the handler
\* ends without reaching writeFile
generateReadFail(k) ==
  /\ k \in 1..Len(gens)
  /\ gens[k].pc = "read"
  /\ gens' = AfterReadError(gens, k)
  /\ last' = Step("readFile", gens[k].checkedFiles[gens[k].i],
                  "Error generating file", <<gens[k].i>>)
  /\ UNCHANGED <<items, allChecked, props, discovered, shown>>

\* path.join(this.workspaceRoot, `${fileName}.txt`)
outputPath(fileName) == join(workspaceRoot, <<fileName, ".txt">>)

\* writeFile resolves: the artifact at outputPath holds the document (what
\* follows only shows messages)
generateWrite(k) ==
  /\ k \in 1..Len(gens)
  /\ gens[k].pc = "write"
  /\ gens' = Remove(gens, k)
  /\ last' = Step("writeFile", outputPath(gens[k].fileName), gens[k].output, <<gens[k].checkedFiles>>)
  /\ UNCHANGED <<items, allChecked, props, discovered, shown>>

\* writeFile rejects: the same catch
generateWriteFail(k) ==
  /\ k \in 1..Len(gens)
  /\ gens[k].pc = "write"
  /\ gens' = Remove(gens, k)
  /\ last' = Step("writeFile.rejected", outputPath(gens[k].fileName), "Error generating file", <<>>)
  /\ UNCHANGED <<items, allChecked, props, discovered, shown>>

\* ------------------------------------------------------------------------
\* Specification
\* ------------------------------------------------------------------------

Init ==
  /\ items = <<>>
  /\ allChecked = FALSE
  /\ discovered = <<>>
  /\ props = <<>>
  /\ gens = <<>>
  /\ shown = NoShown
  /\ last = Step("activate", <<>>, <<>>, <<>>)

Next ==
  \/ \E d \in DOMAIN Disk : getChildren(d)
  \/ \E p \in Keys(items) : toggleCheck(p)
  \/ \E k \in 1..MaxPending : propagate(k)
  \/ \E k \in 1..MaxPending : propagateFail(k)
  \/ toggleAllFiles
  \/ generateFile
  \/ \E k \in 1..MaxGen, fileName \in {"", "out"} : generateInput(k, fileName)
  \/ \E k \in 1..MaxGen : generateRead(k)
  \/ \E k \in 1..MaxGen : generateReadFail(k)
  \/ \E k \in 1..MaxGen : generateWrite(k)
  \/ \E k \in 1..MaxGen : generateWriteFail(k)

Spec == Init /\ [][Next]_vars

\* Every readdir a propagation awaits eventually returns, with entries or
\* with an error
FairSpec ==
  Spec /\ \A k \in 1..MaxPending : WF_vars(propagate(k) \/ propagateFail(k))

\* ------------------------------------------------------------------------
\* Vocabulary of the properties, read off the disk and the map
\* ------------------------------------------------------------------------

IsPrefix(d, p) == Len(d) < Len(p) /\ SubSeq(p, 1, Len(d)) = d

Last(p) == p[Len(p)]

IsFileOnDisk(p) == p \in DOMAIN Content

IsDirOnDisk(p) == p \in DOMAIN Disk

\* p lies in or below a directory named node_modules or .git
InIgnoredDir(p) ==
  \E n \in 1..Len(p) :
    /\ IgnoredName(p[n])
    /\ IsDirOnDisk(SubSeq(p, 1, n))

\* the files below directory d on disk outside ignored subdirectories
FilesUnder(d) ==
  { f \in DOMAIN Content : IsPrefix(d, f) /\ ~InIgnoredDir(f) }

Range(s) == { s[i] : i \in 1..Len(s) }

Checked(m, p) == MapGet(m, p).isChecked

\* ------------------------------------------------------------------------
\* C1
\* ------------------------------------------------------------------------

\* C1 (as stated): when the propagation of a toggle that checked directory
\* N has finished, getCheckedFiles holds every file below N on disk outside
\* ignored subdirectories, expanded before or not.
C1_ToggleCollectsSubtree ==
  (last.op = "propagate" /\ last.ret = <<"finished", TRUE>>)
    => FilesUnder(last.arg) \subseteq Range(getCheckedFiles(items))

\* ------------------------------------------------------------------------
\* C2
\* ------------------------------------------------------------------------

\* the <<path, checked>> pairs of a sequence of items
CheckValues(its) == [i \in 1..Len(its) |-> <<its[i].filePath, its[i].isChecked>>]

\* C2: getChildren leaves the check state of every path the map already
\* holds as it was and creates the paths it meets for the first time
\* unchecked; and when the same directory was listed before with no toggle,
\* propagation step or toggle-all since, it returns the same check values.
C2_ReexpansionPreserves ==
  /\ [][last'.op = "getChildren" =>
          /\ \A p \in Keys(items) :
               p \in Keys(items') /\ Checked(items', p) = Checked(items, p)
          /\ \A p \in Keys(items') \ Keys(items) : ~Checked(items', p)]_vars
  /\ [](last.op = "getChildren" /\ last.pre # <<>>
          => CheckValues(last.ret) = CheckValues(last.pre[1]))

\* a directory listed again, undisturbed, with a checked child
C2_Witness ==
  /\ last.op = "getChildren"
  /\ last.pre # <<>>
  /\ \E i \in 1..Len(last.ret) : last.ret[i].isChecked

\* ------------------------------------------------------------------------
\* C3
\* ------------------------------------------------------------------------

\* C3: toggleAllFiles flips allChecked and leaves every item of the map
\* with the new flag value, adding and removing none; nothing else changes
\* the flag, so from FALSE the calls alternate all-checked and
\* all-unchecked; an item first listed later is created unchecked whatever
\* the flag.
C3_ToggleAllSetsKnown ==
  [][/\ last'.op = "toggleAllFiles" =>
          /\ allChecked' = ~allChecked
          /\ last'.ret = allChecked'
          /\ Keys(items') = Keys(items)
          /\ \A p \in Keys(items') : Checked(items', p) = allChecked'
     /\ allChecked' # allChecked => last'.op = "toggleAllFiles"
     /\ last'.op = "getChildren" =>
          \A p \in Keys(items') \ Keys(items) : ~Checked(items', p)]_vars

\* the second call, on a fully listed tree, has unchecked every item
C3_Witness ==
  /\ last.op = "toggleAllFiles"
  /\ ~allChecked
  /\ Len(items) = 4
  /\ \A p \in Keys(items) : ~Checked(items, p)

\* ------------------------------------------------------------------------
\* C4
\* ------------------------------------------------------------------------

\* C4: after toggleCheck on an item directly followed by toggleCheck on
\* the same item, the item has the check state it had before the first;
\* for a file the whole map and allChecked are as before the first.
C4_ToggleInvolution ==
  (last.op = "toggleCheck" /\ last.pre[3] # <<>>)
    => /\ Checked(items, last.arg) = Checked(last.pre[3][1], last.arg)
       /\ IsFileOnDisk(last.arg) =>
            /\ items = last.pre[3][1]
            /\ allChecked = last.pre[3][2]

\* a file toggled twice in a row between other checked and unchecked items
C4_Witness ==
  /\ last.op = "toggleCheck"
  /\ last.pre[3] # <<>>
  /\ IsFileOnDisk(last.arg)
  /\ \E p, q \in Keys(items) \ {last.arg} : Checked(items, p) /\ ~Checked(items, q)

\* ------------------------------------------------------------------------
\* C5
\* ------------------------------------------------------------------------

\* C5: getCheckedFiles is the sequence of first discovery restricted to
\* the paths that are in the map, are files on disk and are checked: no
\* directory, no unchecked or unknown path, each once, in discovery order.
C5_CheckedFilesInDiscoveryOrder ==
  getCheckedFiles(items) =
    SelectSeq(discovered,
              LAMBDA p : p \in Keys(items) /\ IsFileOnDisk(p) /\ Checked(items, p))

\* both files collected after their directory was listed again
C5_Witness ==
  /\ Len(getCheckedFiles(items)) = 2
  /\ last.op = "getChildren"
  /\ last.arg = <<"ws", "sub">>
  /\ \E p \in Keys(items) : ~IsFileOnDisk(p) /\ Checked(items, p)

\* ------------------------------------------------------------------------
\* C6
\* ------------------------------------------------------------------------

NoFileChecked ==
  \A p \in Keys(items) : IsFileOnDisk(p) => ~Checked(items, p)

\* C6: generateFile invoked while no file item is checked (checked
\* directories or not) shows the no-selection warning and leaves no call
\* pending, so nothing of that invocation can reach writeFile; and no
\* document without a block is ever written.
C6_NoSelectionNoArtifact ==
  /\ [][(last'.op = "generateFile" /\ NoFileChecked) =>
          /\ last'.ret = "No files selected!"
          /\ gens' = gens]_vars
  /\ [](last.op = "writeFile" => last.ret # <<>>)
  /\ [](\A k \in 1..Len(gens) : gens[k].checkedFiles # <<>>)

\* the warning with only directories checked
C6_Witness ==
  /\ last.op = "generateFile"
  /\ last.ret = "No files selected!"
  /\ \E p \in Keys(items) : Checked(items, p)

\* ------------------------------------------------------------------------
\* C7
\* ------------------------------------------------------------------------

\* C7: when a readFile of generateFile fails, the call ends there: it is no
\* longer pending, so it reads no later file and never reaches writeFile,
\* and the step writes nothing; every document that is written holds a
\* block for each file of its call.
C7_ReadFailureAborts ==
  /\ [][(last'.op = "readFile" /\ last'.ret = "Error generating file") =>
          \E k \in 1..Len(gens) :
            /\ gens[k].pc = "read"
            /\ gens[k].checkedFiles[gens[k].i] = last'.arg
            /\ gens' = Remove(gens, k)]_vars
  /\ [](last.op = "writeFile" => Len(last.ret) = 3 * Len(last.pre[1]))

\* the second file of a call fails after the first was read
C7_Witness ==
  /\ last.op = "readFile"
  /\ last.ret = "Error generating file"
  /\ last.pre = <<2>>
  /\ gens = <<>>

\* ------------------------------------------------------------------------
\* C8
\* ------------------------------------------------------------------------

\* the document the specification describes for a list of files: per file,
\* in order, a header with the path below the workspace root, the content,
\* a blank-line separator
ExpectedDocument(files) ==
  [j \in 1..(3 * Len(files)) |->
     LET file == files[(j + 2) \div 3] IN
       CASE j % 3 = 1 -> <<"// File: ", Tail(file), "\n">>
         [] j % 3 = 2 -> Content[file]
         [] OTHER     -> "\n\n"]

\* C8: generateFile takes getCheckedFiles() when invoked, and the document
\* it writes is the concatenation, in that order, of one block per file of
\* that list and nothing else.
C8_DocumentIsBlocksInOrder ==
  /\ [][(last'.op = "generateFile" /\ last'.ret = "showInputBox") =>
          /\ Len(gens') = Len(gens) + 1
          /\ gens'[Len(gens')].checkedFiles =
               SelectSeq(discovered, LAMBDA p : IsFileOnDisk(p) /\ Checked(items, p))]_vars
  /\ [](last.op = "writeFile" => last.ret = ExpectedDocument(last.pre[1]))

\* a document of two files written while both are still the selection
C8_Witness ==
  /\ last.op = "writeFile"
  /\ Len(last.pre[1]) = 2
  /\ last.pre[1] = getCheckedFiles(items)

\* ------------------------------------------------------------------------
\* C9
\* ------------------------------------------------------------------------

\* C9: no path of the map, of a pending or written selection is, or lies
\* below, a directory named node_modules or .git.
C9_IgnoredNeverKnown ==
  /\ \A p \in Keys(items) : ~InIgnoredDir(p)
  /\ \A p \in Range(getCheckedFiles(items)) : ~InIgnoredDir(p)
  /\ \A k \in 1..Len(gens) : \A p \in Range(gens[k].checkedFiles) : ~InIgnoredDir(p)
  /\ last.op = "writeFile" => \A p \in Range(last.pre[1]) : ~InIgnoredDir(p)

\* the root, which holds both ignored directories, listed again after
\* toggle-all checked everything known
C9_Witness ==
  /\ last.op = "getChildren"
  /\ last.arg = workspaceRoot
  /\ allChecked
  /\ Len(getCheckedFiles(items)) = 2

\* ------------------------------------------------------------------------
\* C10
\* ------------------------------------------------------------------------

\* the entries of d that are not directories named node_modules or .git
Listed(d) ==
  SelectSeq(Disk[d], LAMBDA e : ~(e.isDirectory /\ (e.name = "node_modules" \/ e.name = ".git")))

\* C10: getChildren(d) returns one item per entry of d in listing order,
\* leaving out exactly the directories named node_modules or .git (a file
\* of such a name is returned), each with its kind and registered in the
\* map under its absolute path.
C10_ExpandListsEntries ==
  last.op = "getChildren" =>
    /\ Len(last.ret) = Len(Listed(last.arg))
    /\ \A i \in 1..Len(last.ret) :
         /\ last.ret[i].filePath = last.arg \o <<Listed(last.arg)[i].name>>
         /\ last.ret[i].dir = Listed(last.arg)[i].isDirectory
         /\ last.ret[i].filePath \in Keys(items)
         /\ MapGet(items, last.ret[i].filePath) = last.ret[i]

\* the listing of ws/sub returns the regular file named .git
C10_Witness ==
  /\ last.op = "getChildren"
  /\ last.arg = <<"ws", "sub">>
  /\ \E i \in 1..Len(last.ret) : last.ret[i].filePath = <<"ws", "sub", ".git">>

\* ------------------------------------------------------------------------
\* C11
\* ------------------------------------------------------------------------

\* C11 (as stated): when toggleCheck on a directory has returned, its
\* propagation is complete: every item the map holds below the directory
\* has the directory's new value, so no getCheckedFiles or generateFile
\* invoked next can see the directory new and a descendant old.
C11_ToggleReturnsPropagated ==
  (last.op = "toggleCheck" /\ IsDirOnDisk(last.arg))
    => \A q \in Keys(items) :
         IsPrefix(last.arg, q) => Checked(items, q) = last.ret

\* ------------------------------------------------------------------------
\* C12
\* ------------------------------------------------------------------------

\* C12 (as stated): after toggleCheck on a directory whose earlier
\* propagation was still pending, once both propagations have finished
\* (only their reads having completed in between, in any order), every item
\* the map holds below the directory has the directory's value.
C12_OverlappingTogglesConverge ==
  (/\ last.op = "propagate"
   /\ last.ret[1] = "finished"
   /\ props = <<>>
   /\ last.pre[1] # <<>>
   /\ last.pre[1][1] = "toggleCheck"
   /\ last.pre[1][3] >= 2)
    => \A q \in Keys(items) :
         IsPrefix(last.pre[1][2], q) => Checked(items, q) = Checked(items, last.pre[1][2])

\* ------------------------------------------------------------------------
\* C13
\* ------------------------------------------------------------------------

\* C13 (as stated): when the propagation of toggleCheck on a directory has
\* finished undisturbed, every item the map holds below the directory,
\* which getChildren listed and so lies in no ignored directory, has the
\* new value - a regular file named node_modules or .git included.
C13_PropagationCoversListing ==
  (/\ last.op = "propagate"
   /\ last.ret[1] = "finished"
   /\ props = <<>>
   /\ last.pre[1] = <<"toggleCheck", last.arg, 1>>)
    => \A q \in Keys(items) :
         (IsPrefix(last.arg, q) /\ ~InIgnoredDir(q)) => Checked(items, q) = last.ret[2]

\* ------------------------------------------------------------------------
\* C14
\* ------------------------------------------------------------------------

\* the paths getChildren(d) lists
ChildPaths(d) == { d \o <<Listed(d)[i].name>> : i \in 1..Len(Listed(d)) }

\* C14 (as stated): when toggleCheck has checked a directory none of whose
\* children the map holds, its propagation has finished undisturbed and the
\* next step is the first getChildren of that directory, every item
\* returned is checked.
C14_ExpandAfterToggleChecked ==
  [][(/\ last.op = "propagate"
      /\ last.ret = <<"finished", TRUE>>
      /\ props = <<>>
      /\ last.pre[1] = <<"toggleCheck", last.arg, 1>>
      /\ ChildPaths(last.arg) \cap Keys(items) = {}
      /\ last'.op = "getChildren"
      /\ last'.arg = last.arg)
       => \A i \in 1..Len(last'.ret) : last'.ret[i].isChecked]_vars

\* ------------------------------------------------------------------------
\* C15
\* ------------------------------------------------------------------------

\* C15 (as stated): when the readdir of a descendant directory fails during
\* a propagation, the caller of toggleCheck receives the failure, and the
\* failing step changes no item: what was set stays set, the toggled
\* directory stays flipped, what was not reached keeps its value.
C15_PropagationFailureDelivered ==
  [][(/\ last'.op = "propagate"
      /\ last'.ret[1] = "failed"
      /\ IsPrefix(last'.arg, last'.pre[5]))
       => /\ last'.pre[4] = "toggleCheck"
          /\ items' = items]_vars

\* ------------------------------------------------------------------------
\* C16
\* ------------------------------------------------------------------------

SameNodes(m, n) ==
  /\ Keys(m) = Keys(n)
  /\ \A q \in Keys(m) : MapGet(m, q).dir = MapGet(n, q).dir

\* C16: toggleCheck flips its item and changes no other; the steps of its
\* propagation change only items strictly below the toggled directory;
\* neither adds, removes or changes the kind of an item, nor touches
\* allChecked; allChecked changes only in toggleAllFiles, flipping once;
\* getChildren changes neither allChecked nor the check state of an item
\* the map already holds.
C16_FrameOfToggle ==
  [][/\ last'.op = "toggleCheck" =>
          /\ Checked(items', last'.arg) = ~Checked(items, last'.arg)
          /\ \A q \in Keys(items) \ {last'.arg} : Checked(items', q) = Checked(items, q)
          /\ SameNodes(items, items')
          /\ allChecked' = allChecked
     /\ last'.op = "propagate" =>
          /\ \A q \in Keys(items) :
               ~IsPrefix(last'.arg, q) => Checked(items', q) = Checked(items, q)
          /\ SameNodes(items, items')
          /\ allChecked' = allChecked
     /\ last'.op = "toggleAllFiles" <=> allChecked' = ~allChecked
     /\ last'.op = "getChildren" =>
          /\ allChecked' = allChecked
          /\ \A q \in Keys(items) :
               q \in Keys(items') /\ Checked(items', q) = Checked(items, q)]_vars

\* a propagation below ws/sub/deep has finished, the items outside still
\* unchecked
C16_Witness ==
  /\ last.op = "propagate"
  /\ last.arg = <<"ws", "sub", "deep">>
  /\ last.ret = <<"finished", TRUE>>
  /\ <<"ws", "sub", "deep", "c.txt">> \in Keys(items)
  /\ Checked(items, <<"ws", "sub", "deep", "c.txt">>)
  /\ ~Checked(items, <<"ws", "sub">>)
  /\ ~Checked(items, <<"ws", "sub", ".git">>)

\* ------------------------------------------------------------------------
\* C17
\* ------------------------------------------------------------------------

\* C17 (as stated): when toggleAllFiles ran while propagations were
\* pending and they have since finished, with no other handler step in
\* between, every item of the map has the value of allChecked.
C17_ToggleAllSurvivesPropagation ==
  (/\ last.op = "propagate"
   /\ last.ret[1] = "finished"
   /\ props = <<>>
   /\ last.pre[1] # <<>>
   /\ last.pre[1][1] = "toggleAllFiles")
    => \A q \in Keys(items) : Checked(items, q) = allChecked

\* ------------------------------------------------------------------------
\* C19
\* ------------------------------------------------------------------------

TreeOps == {"getChildren", "toggleCheck", "propagate", "toggleAllFiles"}

GenerateOps == {"generateFile", "showInputBox", "readFile", "writeFile", "writeFile.rejected"}

\* the paths named by the headers of a document
HeaderPaths(doc) == [j \in 1..(Len(doc) \div 3) |-> doc[3 * j - 2][2]]

\* C19: no step of the tree handlers touches a pending generateFile call;
\* the steps of generateFile leave the map and allChecked alone and keep
\* the list the call took at its invocation; the written document names
\* exactly the files of that list, in its order, whatever the selection
\* has become since.
C19_GenerateWorksOnSnapshot ==
  /\ [][/\ last'.op \in TreeOps => gens' = gens
        /\ last'.op \in GenerateOps =>
             /\ items' = items
             /\ allChecked' = allChecked
             /\ props' = props
        /\ (last'.op \in {"showInputBox", "readFile"} /\ Len(gens') = Len(gens)) =>
             \A k \in 1..Len(gens) : gens'[k].checkedFiles = gens[k].checkedFiles]_vars
  /\ [](last.op = "writeFile" =>
          HeaderPaths(last.ret) = [j \in 1..Len(last.pre[1]) |-> Tail(last.pre[1][j])])

\* a document of two files written after both were unchecked
C19_Witness ==
  /\ last.op = "writeFile"
  /\ Len(last.pre[1]) = 2
  /\ getCheckedFiles(items) = <<>>

\* ------------------------------------------------------------------------
\* C18
\* ------------------------------------------------------------------------

\* the directories a propagation from d has to read: d and the directories
\* below it that lie in no ignored directory
DirsToWalk(d) ==
  { q \in DOMAIN Disk : (q = d \/ IsPrefix(d, q)) /\ ~InIgnoredDir(q) }

NoRepeat(s) == \A i, j \in 1..Len(s) : s[i] = s[j] => i = j

\* the last step ended the oldest pending propagation, finished or failed
OldestEnded ==
  /\ last.op = "propagate"
  /\ last.ret[1] \in {"finished", "failed"}
  /\ last.pre[3] = 1

\* C18: while the reads keep returning, whenever a propagation is pending
\* the oldest pending one comes to its end, finished or failed, so none
\* stays pending forever (each has finitely many older ones); a
\* propagation reads only the toggled directory and its non-ignored
\* descendant directories, each at most once, and a finished one has read
\* each of them exactly once.
C18_PropagationTerminates ==
  /\ (props # <<>> /\ ~OldestEnded) ~> OldestEnded
  /\ [](\A k \in 1..Len(props) :
          /\ NoRepeat(props[k].visited)
          /\ Range(props[k].visited) \subseteq DirsToWalk(props[k].dirPath))
  /\ []((last.op = "propagate" /\ last.ret[1] = "finished") =>
          /\ NoRepeat(last.pre[2])
          /\ Range(last.pre[2]) = DirsToWalk(last.arg))

\* a propagation from ws/sub has finished after reading two directories
C18_Witness ==
  /\ last.op = "propagate"
  /\ last.ret[1] = "finished"
  /\ Len(last.pre[2]) = 2

====
